---- MODULE Spec2Model ----
(***************************************************************************)
(* Model of the PDF operations of prometheus (src/prometheus/pdf_utils.py) *)
(* with the token-aware text chunker of extract_text_from_pdf at its core. *)
(*                                                                         *)
(* Text is a sequence of one-character strings.  A document is the         *)
(* sequence of the raw texts its pages yield to page.get_text().           *)
(***************************************************************************)
EXTENDS Integers, Sequences, FiniteSets, TLC

\* ------------------------------------------------------------------------
\* Bounds of the model
\* ------------------------------------------------------------------------
MaxPages == 3
MaxBudget == 12
MaxCalls == 2
MaxPagesPerChunk == 4

\* config.max_pages_per_chunk and config.max_token_limit, at their defaults
ConfigMaxPagesPerChunk == 200
ConfigMaxTokenLimit == 32000

\* The raw texts a page can have: no text (a scanned page), a blank only,
\* a word, a word with a trailing blank, two words two blanks apart.
Texts == {<<>>, <<" ">>, <<"a">>, <<"a", " ">>, <<"a", " ", " ", "a">>}
Docs == UNION {[1..n -> Texts] : n \in 0..MaxPages}

\* A document of n pages without text: what the page-copying operations see.
BlankDoc(n) == [i \in 1..n |-> <<>>]
BlankDocs == {BlankDoc(n) : n \in 0..MaxPages}

Operations == {"get_pdf_info", "split_pdf", "extract_text_from_pdf",
               "extract_pdf_range"}

VARIABLES
    op,                     \* the pdf_utils operation being called
    via_server,             \* the call comes through the server tool of op
    output_dir,             \* split: "none", "valid", or "bad_parent"
    file_status,            \* what is at pdf_path: "ok", "missing", ...
    file_size,              \* "small", "large" (over 50 MB)
    has_bookmarks,          \* doc.get_toc() is not empty
    doc_pages,              \* raw text of each page of the document
    save_raises,            \* saving an output PDF fails (disk full, ...)
    pages_per_chunk,        \* argument of split_pdf
    start_page,             \* argument of extract_pdf_range
    end_page,               \* argument of extract_pdf_range
    max_tokens_per_chunk,   \* argument of extract_text_from_pdf
    include_page_numbers,   \* argument of extract_text_from_pdf
    clean_text,             \* argument of extract_text_from_pdf
    encoder_raises,         \* encoder.encode raises on this document's text
    pc,                     \* position of the call
    total_pages,
    page_num,               \* 0-indexed page the loop is about to process
    chunks,
    current_chunk,
    current_tokens,
    chunk_id,
    pages_in_chunk,
    split_start,            \* split_pdf: 0-indexed start page of the loop
    chunk_count,            \* split_pdf
    chunks_created,         \* split_pdf
    out_dir_exists,         \* the output directory of split_pdf exists
    files,                  \* output PDFs written, each the source pages it holds
    open_docs,              \* document handles opened and not yet closed
    result,                 \* the dict returned to the caller
    tool_result,            \* the dict the server tool returns
    raised,                 \* the exception that reached the caller, or ""
    calls,                  \* number of calls started on this input
    first_result,           \* what the first call on this input returned
    tasks,                  \* the frames of the suspended concurrent calls
    running                 \* the task whose frame is being executed

vars == <<op, file_status, file_size, has_bookmarks, doc_pages, save_raises,
          pages_per_chunk, start_page, end_page, max_tokens_per_chunk,
          include_page_numbers, clean_text, encoder_raises, pc, total_pages,
          page_num, chunks, current_chunk, current_tokens, chunk_id,
          pages_in_chunk, split_start, chunk_count, chunks_created,
          out_dir_exists, files, open_docs, result, raised, calls,
          first_result, via_server, output_dir, tool_result, tasks, running>>

inputs == <<op, file_status, file_size, has_bookmarks, doc_pages, save_raises,
            pages_per_chunk, start_page, end_page, max_tokens_per_chunk,
            include_page_numbers, clean_text, encoder_raises, via_server,
            output_dir>>

accumulator == <<chunks, current_chunk, current_tokens, chunk_id,
                 pages_in_chunk>>

split_locals == <<split_start, chunk_count, chunks_created>>

filesystem == <<out_dir_exists, files>>

scheduler == <<tasks, running>>

NoResult == [status |-> "none"]

\* ------------------------------------------------------------------------
\* Strings
\* ------------------------------------------------------------------------
Whitespace == {" ", "\n", "\t", "\r"}

IsWs(c) == c \in Whitespace

DigitChars == <<"0", "1", "2", "3", "4", "5", "6", "7", "8", "9">>

RECURSIVE ToStr(_)
\* str(n) of a natural number: its decimal digits
ToStr(n) ==
    IF n < 10 THEN <<DigitChars[n + 1]>>
    ELSE ToStr(n \div 10) \o <<DigitChars[(n % 10) + 1]>>

RECURSIVE lstrip(_)
lstrip(s) ==
    IF s # <<>> /\ IsWs(Head(s)) THEN lstrip(Tail(s)) ELSE s

RECURSIVE rstrip(_)
rstrip(s) ==
    IF s # <<>> /\ IsWs(s[Len(s)]) THEN rstrip(SubSeq(s, 1, Len(s) - 1)) ELSE s

\* str.strip(): leading and trailing whitespace removed
strip(s) == rstrip(lstrip(s))

RECURSIVE CollapseBlanks(_)
\* re.sub(r'[ \t]+', ' ', text): every run of blanks and tabs becomes one blank
CollapseBlanks(s) ==
    IF s = <<>> THEN <<>>
    ELSE IF Head(s) \in {" ", "\t"}
         THEN IF Len(s) > 1 /\ s[2] \in {" ", "\t"}
              THEN CollapseBlanks(Tail(s))
              ELSE <<" ">> \o CollapseBlanks(Tail(s))
         ELSE <<Head(s)>> \o CollapseBlanks(Tail(s))

\* clean_extracted_text.  Of its substitutions only the blank-run collapse and
\* the final strip can match one of Texts: the others need a newline, a
\* digit, a control character, a bullet or a capital letter.
clean_extracted_text(text) ==
    IF text = <<>> THEN <<>>
    ELSE strip(CollapseBlanks(text))

\* ------------------------------------------------------------------------
\* Token counting
\* ------------------------------------------------------------------------
\* encoder.encode of the external tokenizer, as the number of pieces of a
\* word-piece split: each maximal run of non-whitespace characters is one
\* piece together with the whitespace before it, and whitespace at the very
\* end is one more piece.  It is deterministic, gives 0 exactly for the empty
\* string, and is not additive over concatenation ("a" + "a" is one piece).
Encode(text) ==
    Cardinality({i \in 1..Len(text) :
                    /\ ~IsWs(text[i])
                    /\ (i = 1 \/ IsWs(text[i - 1]))})
    + (IF text # <<>> /\ IsWs(text[Len(text)]) THEN 1 ELSE 0)

\* the fallback without its division by four
count_tokensWholeLength(text) ==
    IF encoder_raises THEN Len(text) ELSE Encode(text)

\* count_tokens: len(encoder.encode(text)), or len(text) // 4 when it raises
count_tokens(text) ==
    IF encoder_raises THEN Len(text) \div 4 ELSE Encode(text)

\* ------------------------------------------------------------------------
\* extract_text_from_pdf
\* ------------------------------------------------------------------------
\* the header with the 0-indexed loop variable for the page number
PageHeaderZeroBased(n) ==
    <<"\n", "-", "-", "-", " ", "P", "a", "g", "e", " ">> \o ToStr(n - 1)
        \o <<" ", "-", "-", "-", "\n">>

\* f"\n--- Page {page_num + 1} ---\n", n being the 1-indexed page number
PageHeader(n) ==
    <<"\n", "-", "-", "-", " ", "P", "a", "g", "e", " ">> \o ToStr(n)
        \o <<" ", "-", "-", "-", "\n">>

\* the text of 1-indexed page n after the optional cleaning
PageText(n) ==
    IF clean_text THEN clean_extracted_text(doc_pages[n]) ELSE doc_pages[n]

\* page_content of 1-indexed page n
PageContent(n) ==
    IF include_page_numbers THEN PageHeader(n) \o PageText(n) ELSE PageText(n)

PageTokens(n) == count_tokens(PageContent(n))

\* the range with the first page in both places
PageRangeFirstOnly(pages) ==
    IF pages # <<>>
    THEN ToStr(pages[1]) \o <<"-">> \o ToStr(pages[1])
    ELSE <<>>

\* f"{pages_in_chunk[0]}-{pages_in_chunk[-1]}" if pages_in_chunk else ""
PageRange(pages) ==
    IF pages # <<>>
    THEN ToStr(pages[1]) \o <<"-">> \o ToStr(pages[Len(pages)])
    ELSE <<>>

\* the chunk with the buffer as it was accumulated, not trimmed
MakeChunkUntrimmed(id, buf, tokens, pages) ==
    [chunk_id |-> id,
     text |-> buf,
     token_count |-> tokens,
     pages |-> pages,
     page_range |-> PageRange(pages)]

\* the chunk with its token count measured again on the trimmed text
MakeChunkRecounted(id, buf, tokens, pages) ==
    [chunk_id |-> id,
     text |-> strip(buf),
     token_count |-> count_tokens(strip(buf)),
     pages |-> pages,
     page_range |-> PageRange(pages)]

\* the dict appended to chunks when the accumulator is sealed
MakeChunk(id, buf, tokens, pages) ==
    [chunk_id |-> id,
     text |-> strip(buf),
     token_count |-> tokens,
     pages |-> pages,
     page_range |-> PageRange(pages)]

\* "if current_tokens + page_tokens > max_tokens_per_chunk and current_chunk"
ShouldSeal(tokens, page_tokens, buf) ==
    tokens + page_tokens > max_tokens_per_chunk /\ buf # <<>>

\* the last chunk appended without a test
HasLastChunkAlways(buf) == TRUE

\* "if current_chunk:" after the loop
HasLastChunk(buf) == buf # <<>>

\* the chunk counter carried over from the previous call
StartChunkIdCarried == chunk_id + 1

\* chunk_id = 1 at the start of a call
StartChunkId == 1

\* the chunk counter left as it is
NextChunkIdSame(id) == id

\* chunk_id += 1 when a chunk has been sealed
NextChunkId(id) == id + 1

RECURSIVE SumTokensButLast(_)
\* the sum that leaves the last chunk out
SumTokensButLast(cs) ==
    IF Len(cs) <= 1 THEN 0
    ELSE cs[1].token_count + SumTokensButLast(Tail(cs))

RECURSIVE SumTokens(_)
\* sum(chunk["token_count"] for chunk in chunks)
SumTokens(cs) ==
    IF cs = <<>> THEN 0 ELSE cs[1].token_count + SumTokens(Tail(cs))

RECURSIVE MaxTokens(_)
\* max(chunk["token_count"] for chunk in chunks) if chunks else 0
MaxTokens(cs) ==
    IF cs = <<>> THEN 0
    ELSE LET m == MaxTokens(Tail(cs))
         IN  IF cs[1].token_count > m THEN cs[1].token_count ELSE m

\* Python's round() of the quotient a / b: to nearest, ties to even
RoundDiv(a, b) ==
    LET q == a \div b
        r == a % b
    IN  IF 2 * r < b THEN q
        ELSE IF 2 * r > b THEN q + 1
        ELSE IF q % 2 = 0 THEN q ELSE q + 1

SuccessResult(cs) ==
    [status |-> "success",
     total_pages |-> total_pages,
     chunks_created |-> Len(cs),
     total_tokens |-> SumTokens(cs),
     avg_tokens_per_chunk |->
         IF cs # <<>> THEN RoundDiv(SumTokens(cs), Len(cs)) ELSE 0,
     max_tokens_per_chunk |-> MaxTokens(cs),
     chunks |-> cs]

ErrorResult(prefix, detail) ==
    [status |-> "error", error |-> <<prefix, detail>>]

NoException == [type |-> "", message |-> ""]

PDFError(message) == [type |-> "PDFError", message |-> message]

\* what str(e) says of the exception the PDF library raises on such a file
LibraryError == [missing |-> "no such file", unreadable |-> "cannot open",
                 password |-> "document closed or encrypted",
                 ok |-> "", too_large |-> ""]

\* doc = fitz.open(pdf_path) ... pages_in_chunk = []   (the file opens; a
\* password-protected file may open and fail only when a page is read)
ExtractOpen ==
    /\ pc = "call"
    /\ op = "extract_text_from_pdf"
    /\ file_status \in {"ok", "password"}
    /\ open_docs' = open_docs + 1
    /\ total_pages' = Len(doc_pages)
    /\ chunks' = <<>>
    /\ current_chunk' = <<>>
    /\ current_tokens' = 0
    /\ chunk_id' = StartChunkId
    /\ pages_in_chunk' = <<>>
    /\ page_num' = 0
    /\ pc' = "loop"
    /\ UNCHANGED <<inputs, scheduler, tool_result, split_locals, filesystem,
                   result, raised, calls, first_result>>

\* fitz.open raises: the except clause returns the error dict
ExtractFail ==
    /\ pc = "call"
    /\ op = "extract_text_from_pdf"
    /\ file_status \in {"missing", "unreadable", "password"}
    /\ result' = ErrorResult("Failed to extract text: ",
                             LibraryError[file_status])
    /\ pc' = "done"
    /\ UNCHANGED <<inputs, scheduler, tool_result, total_pages, page_num,
                   accumulator, split_locals, filesystem, open_docs, raised,
                   calls, first_result>>

\* one iteration of "for page_num in range(total_pages)"
ExtractPage ==
    /\ pc = "loop"
    /\ op = "extract_text_from_pdf"
    /\ file_status = "ok"
    /\ page_num < total_pages
    /\ LET n == page_num + 1
           page_content == PageContent(n)
           page_tokens == count_tokens(page_content)
       IN  IF ShouldSeal(current_tokens, page_tokens, current_chunk)
           THEN /\ chunks' = Append(chunks,
                        MakeChunk(chunk_id, current_chunk, current_tokens,
                                  pages_in_chunk))
                /\ chunk_id' = NextChunkId(chunk_id)
                /\ current_chunk' = page_content
                /\ current_tokens' = page_tokens
                /\ pages_in_chunk' = <<n>>
           ELSE /\ current_chunk' = current_chunk \o page_content
                /\ current_tokens' = current_tokens + page_tokens
                /\ pages_in_chunk' = Append(pages_in_chunk, n)
                /\ UNCHANGED <<chunks, chunk_id>>
    /\ page_num' = page_num + 1
    /\ UNCHANGED <<inputs, scheduler, tool_result, pc, total_pages,
                   split_locals, filesystem, open_docs, result, raised, calls,
                   first_result>>

\* doc[page_num] raises on a document that needs a password: the except
\* clause returns the error dict (doc.close() is not reached)
ExtractPageFail ==
    /\ pc = "loop"
    /\ op = "extract_text_from_pdf"
    /\ file_status = "password"
    /\ page_num < total_pages
    /\ result' = ErrorResult("Failed to extract text: ",
                             LibraryError[file_status])
    /\ pc' = "done"
    /\ UNCHANGED <<inputs, scheduler, tool_result, total_pages, page_num,
                   accumulator, split_locals, filesystem, open_docs, raised,
                   calls, first_result>>

\* the code after the loop: the last chunk, doc.close(), the statistics
ExtractFinish ==
    /\ pc = "loop"
    /\ op = "extract_text_from_pdf"
    /\ page_num = total_pages
    /\ LET final == IF HasLastChunk(current_chunk)
                    THEN Append(chunks,
                             MakeChunk(chunk_id, current_chunk,
                                       current_tokens, pages_in_chunk))
                    ELSE chunks
       IN  /\ chunks' = final
           /\ result' = SuccessResult(final)
    /\ open_docs' = open_docs - 1
    /\ pc' = "done"
    /\ UNCHANGED <<inputs, scheduler, tool_result, total_pages, page_num,
                   current_chunk, current_tokens, chunk_id, pages_in_chunk,
                   split_locals, filesystem, raised, calls, first_result>>

\* ------------------------------------------------------------------------
\* get_pdf_info, through safe_pdf_context
\* ------------------------------------------------------------------------
Min(a, b) == IF a < b THEN a ELSE b

Max(a, b) == IF a > b THEN a ELSE b

RECURSIVE SampleLength(_)
\* sample_text_length: the summed len(page_text) of the first k pages
SampleLength(k) ==
    IF k = 0 THEN 0 ELSE Len(doc_pages[k]) + SampleLength(k - 1)

\* the exception safe_pdf_context raises before it yields, or NoException
ContextError(open_fails) ==
    IF file_status = "missing" THEN PDFError("PDF file not found: ")
    ELSE IF file_status = "too_large" THEN PDFError("PDF file too large: ")
    ELSE IF file_status = "unreadable" THEN PDFError("Failed to open PDF: ")
    ELSE IF file_status = "password" /\ open_fails
         THEN PDFError("PDF is password protected")
    ELSE IF Len(doc_pages) = 0 THEN PDFError("PDF has no pages")
    ELSE NoException

\* the dict get_pdf_info returns for a document it could read
InfoResult ==
    LET n == Len(doc_pages)
        sample_pages == Min(3, n)
        sample_text_length == SampleLength(sample_pages)
        large == file_size = "large"
    IN  [status |-> "success",
         pdf_info |->
            [total_pages |-> n,
             has_bookmarks |-> has_bookmarks,
             avg_chars_per_page |->
                 IF sample_pages > 0
                 THEN RoundDiv(sample_text_length, sample_pages) ELSE 0,
             estimated_total_tokens |->
                 IF sample_pages > 0
                 THEN (n * sample_text_length) \div (4 * sample_pages)
                 ELSE 0],
         processing_estimates |->
            [estimated_chunks |->
                <<(n + 4) \div 5, (n + 9) \div 10, (n + 19) \div 20,
                  (n + 49) \div 50>>,
             recommended_chunk_size |->
                 IF large THEN 10
                 ELSE IF n > 200 THEN 15
                 ELSE IF has_bookmarks THEN 25 ELSE 20,
             complexity_level |->
                 IF large THEN "high"
                 ELSE IF n > 200 THEN "medium"
                 ELSE IF has_bookmarks THEN "low" ELSE "medium",
             processing_time_estimate_minutes |-> Max(1, n \div 50)]]

\* the documents safe_pdf_context leaves open when it exits with e: its
\* finally clause closes the document under "if doc:", and the truth value of
\* a Document without pages is that of len(doc) == 0 unless the library
\* gives the class a truth value of its own
ContextLeavesOpen(e, doc_truthy) ==
    IF e = PDFError("PDF has no pages") /\ ~doc_truthy THEN 1 ELSE 0

\* get_pdf_info: a PDFError of safe_pdf_context is re-raised to the caller,
\* any other exception becomes the "Failed to read PDF" error dict.
GetPdfInfo ==
    /\ pc = "call"
    /\ op = "get_pdf_info"
    /\ \E open_fails, doc_truthy \in BOOLEAN :
          LET e == ContextError(open_fails)
          IN  /\ open_docs' = open_docs + ContextLeavesOpen(e, doc_truthy)
              /\ IF e # NoException
                 THEN /\ raised' = e
                      /\ UNCHANGED result
                 ELSE IF file_status = "password"
                 THEN /\ result' = ErrorResult("Failed to read PDF: ",
                                               LibraryError[file_status])
                      /\ UNCHANGED raised
                 ELSE /\ result' = InfoResult
                      /\ UNCHANGED raised
    /\ pc' = "done"
    /\ UNCHANGED <<inputs, scheduler, tool_result, total_pages, page_num,
                   accumulator, split_locals, filesystem, calls,
                   first_result>>

\* ------------------------------------------------------------------------
\* split_pdf
\* ------------------------------------------------------------------------
\* the 1-indexed source pages a..b in order
PageRun(a, b) == [i \in 1..(b - a + 1) |-> a + i - 1]

\* writing an output PDF replaces a file of the same name
WriteFile(fs, name, pages) ==
    {f \in fs : f.name # name} \cup {[name |-> name, pages |-> pages]}

\* the start of split_pdf up to the first iteration of its loop
SplitStart ==
    /\ pc = "call"
    /\ op = "split_pdf"
    /\ \E open_fails \in BOOLEAN :
        IF file_status = "missing"
        THEN /\ result' = ErrorResult("PDF file not found: ", "")
             /\ pc' = "done"
             /\ UNCHANGED <<total_pages, split_locals, out_dir_exists,
                            open_docs>>
        ELSE IF output_dir = "bad_parent"
        THEN \* out_dir.mkdir(exist_ok=True) raises: the parent is missing
             /\ result' = ErrorResult("Failed to split PDF: ",
                                      "no such directory")
             /\ pc' = "done"
             /\ UNCHANGED <<total_pages, split_locals, out_dir_exists,
                            open_docs>>
        ELSE
          /\ out_dir_exists' = TRUE
          /\ IF file_status = "unreadable"
                   \/ (file_status = "password" /\ open_fails)
             THEN /\ result' = ErrorResult("Failed to split PDF: ",
                                           LibraryError[file_status])
                  /\ pc' = "done"
                  /\ UNCHANGED <<total_pages, split_locals, open_docs>>
             ELSE
               /\ total_pages' = Len(doc_pages)
               /\ IF Len(doc_pages) = 0
                  THEN /\ result' = ErrorResult("PDF has no pages", "")
                       /\ pc' = "done"
                       /\ UNCHANGED <<split_locals, open_docs>>
                  ELSE
                    /\ chunks_created' = <<>>
                    /\ chunk_count' = 0
                    /\ split_start' = 0
                    /\ open_docs' = open_docs + 1
                    /\ IF pages_per_chunk = 0
                       THEN /\ result' = ErrorResult("Failed to split PDF: ",
                                            "range() arg 3 must not be zero")
                            /\ pc' = "done"
                       ELSE /\ pc' = "loop"
                            /\ UNCHANGED result
    /\ UNCHANGED <<inputs, scheduler, tool_result, page_num, accumulator,
                   files, raised, calls, first_result>>

\* the loop that stops before a last chunk of fewer pages
SplitHasNextWhole ==
    IF pages_per_chunk > 0 THEN split_start + pages_per_chunk <= total_pages
    ELSE split_start > total_pages

\* "for start_page in range(0, total_pages, pages_per_chunk)" has a next value
SplitHasNext ==
    IF pages_per_chunk > 0 THEN split_start < total_pages
    ELSE split_start > total_pages

\* one iteration of the loop of split_pdf
SplitChunk ==
    /\ pc = "loop"
    /\ op = "split_pdf"
    /\ SplitHasNext
    /\ LET chunk_end == Min(split_start + pages_per_chunk, total_pages)
           name == <<"chunk", chunk_count + 1, split_start + 1, chunk_end>>
       IN  /\ chunk_count' = chunk_count + 1
           /\ IF file_status = "password" \/ save_raises
              THEN \* insert_pdf or save raises: both documents stay open
                   /\ result' = ErrorResult("Failed to split PDF: ",
                                    IF file_status = "password"
                                    THEN LibraryError[file_status]
                                    ELSE "cannot save")
                   /\ open_docs' = open_docs + 1
                   /\ pc' = "done"
                   /\ UNCHANGED <<split_start, chunks_created, files>>
              ELSE /\ files' = WriteFile(files, name,
                                   PageRun(split_start + 1, chunk_end))
                   /\ chunks_created' = Append(chunks_created,
                          [chunk_id |-> chunk_count + 1,
                           file_path |-> name,
                           pages |-> ToStr(split_start + 1) \o <<"-">>
                                        \o ToStr(chunk_end),
                           page_count |-> chunk_end - split_start])
                   /\ split_start' = split_start + pages_per_chunk
                   /\ UNCHANGED <<result, open_docs, pc>>
    /\ UNCHANGED <<inputs, scheduler, tool_result, total_pages, page_num,
                   accumulator, out_dir_exists, raised, calls, first_result>>

\* after the loop: doc.close() and the success dict
SplitFinish ==
    /\ pc = "loop"
    /\ op = "split_pdf"
    /\ ~SplitHasNext
    /\ open_docs' = open_docs - 1
    /\ result' = [status |-> "success",
                  chunk_count |-> chunk_count,
                  chunks_created |-> Len(chunks_created),
                  chunks |-> chunks_created]
    /\ pc' = "done"
    /\ UNCHANGED <<inputs, scheduler, tool_result, total_pages, page_num,
                   accumulator, split_locals, filesystem, raised, calls,
                   first_result>>

\* ------------------------------------------------------------------------
\* extract_pdf_range
\* ------------------------------------------------------------------------
\* the validation without the test of end_page against total_pages
InvalidRangeNoLimit(first, last, total) ==
    first < 1 \/ first > last

\* "start_page < 1 or end_page > total_pages or start_page > end_page"
InvalidRange(first, last, total) ==
    first < 1 \/ last > total \/ first > last

ExtractPdfRange ==
    /\ pc = "call"
    /\ op = "extract_pdf_range"
    /\ \E open_fails \in BOOLEAN :
        IF file_status \in {"missing", "unreadable"}
              \/ (file_status = "password" /\ open_fails)
        THEN /\ result' = ErrorResult("Failed to extract page range: ",
                                      LibraryError[file_status])
             /\ UNCHANGED <<total_pages, files, open_docs>>
        ELSE
          /\ total_pages' = Len(doc_pages)
          /\ IF InvalidRange(start_page, end_page, Len(doc_pages))
             THEN /\ result' = ErrorResult("Invalid page range ",
                                   <<start_page, end_page, Len(doc_pages)>>)
                  /\ UNCHANGED <<files, open_docs>>
             ELSE IF file_status = "password" \/ save_raises
             THEN \* insert_pdf or save raises: both documents stay open
                  /\ result' = ErrorResult("Failed to extract page range: ",
                                   IF file_status = "password"
                                   THEN LibraryError[file_status]
                                   ELSE "cannot save")
                  /\ open_docs' = open_docs + 2
                  /\ UNCHANGED files
             ELSE /\ files' = WriteFile(files,
                                  <<"pages", start_page, end_page>>,
                                  PageRun(start_page, end_page))
                  /\ result' = [status |-> "success",
                                extracted_pages |-> ToStr(start_page)
                                    \o <<"-">> \o ToStr(end_page),
                                page_count |-> end_page - start_page + 1,
                                output_file |->
                                    <<"pages", start_page, end_page>>]
                  /\ UNCHANGED open_docs
    /\ pc' = "done"
    /\ UNCHANGED <<inputs, scheduler, tool_result, page_num, accumulator,
                   split_locals, out_dir_exists, raised, calls, first_result>>

\* ------------------------------------------------------------------------
\* The server tools (src/prometheus/server.py)
\* ------------------------------------------------------------------------
\* the options without the upper limit of pages_per_chunk
SplitOptionsValidNoLimit(ppc, outdir) ==
    /\ ppc > 0
    /\ outdir # "bad_parent"

\* SplitOptions(...) raises nothing: pages_per_chunk is gt=0 and
\* le=config.max_pages_per_chunk, and the parent of output_dir exists
SplitOptionsValid(ppc, outdir) ==
    /\ ppc > 0
    /\ ppc <= ConfigMaxPagesPerChunk
    /\ outdir # "bad_parent"

\* ExtractionOptions(...) raises nothing: max_tokens_per_chunk is gt=100 and
\* le=config.max_token_limit
ExtractionOptionsValid(budget) ==
    /\ budget > 100
    /\ budget <= ConfigMaxTokenLimit

\* prometheus_info and prometheus_extract_range call the operation at once
PrometheusCall ==
    /\ pc = "tool"
    /\ op \in {"get_pdf_info", "extract_pdf_range"}
    /\ pc' = "call"
    /\ UNCHANGED <<inputs, scheduler, tool_result, total_pages, page_num,
                   accumulator, split_locals, filesystem, open_docs, result,
                   raised, calls, first_result>>

\* prometheus_split: the options are validated before split_pdf is called
PrometheusSplitValidate ==
    /\ pc = "tool"
    /\ op = "split_pdf"
    /\ IF SplitOptionsValid(pages_per_chunk, output_dir)
       THEN /\ pc' = "call"
            /\ UNCHANGED tool_result
       ELSE /\ tool_result' = ErrorResult("Invalid options: ",
                                          "validation error")
            /\ pc' = "returned"
    /\ UNCHANGED <<inputs, scheduler, total_pages, page_num, accumulator,
                   split_locals, filesystem, open_docs, result, raised, calls,
                   first_result>>

\* prometheus_extract_text: the options are validated before
\* extract_text_from_pdf is called
PrometheusExtractTextValidate ==
    /\ pc = "tool"
    /\ op = "extract_text_from_pdf"
    /\ IF ExtractionOptionsValid(max_tokens_per_chunk)
       THEN /\ pc' = "call"
            /\ UNCHANGED tool_result
       ELSE /\ tool_result' = ErrorResult("Invalid options: ",
                                          "validation error")
            /\ pc' = "returned"
    /\ UNCHANGED <<inputs, scheduler, total_pages, page_num, accumulator,
                   split_locals, filesystem, open_docs, result, raised, calls,
                   first_result>>

\* prometheus_info after get_pdf_info: the result is passed on, a PDFError
\* becomes an error dict with str(e), any other exception an
\* "Unexpected error" dict
PrometheusInfoReturn ==
    /\ pc = "done"
    /\ via_server
    /\ op = "get_pdf_info"
    /\ tool_result' =
          IF raised.type = "PDFError" THEN ErrorResult(raised.message, "")
          ELSE IF raised # NoException
               THEN ErrorResult("Unexpected error: ", raised.message)
          ELSE result
    /\ pc' = "returned"
    /\ UNCHANGED <<inputs, scheduler, total_pages, page_num, accumulator,
                   split_locals, filesystem, open_docs, result, raised, calls,
                   first_result>>

\* the other tools return what the operation returned
PrometheusReturn ==
    /\ pc = "done"
    /\ via_server
    /\ op # "get_pdf_info"
    /\ tool_result' = result
    /\ pc' = "returned"
    /\ UNCHANGED <<inputs, scheduler, total_pages, page_num, accumulator,
                   split_locals, filesystem, open_docs, result, raised, calls,
                   first_result>>

\* ------------------------------------------------------------------------
\* The caller
\* ------------------------------------------------------------------------
\* the caller repeats the call with the same arguments on the same file
CallAgain ==
    /\ pc = "done"
    /\ ~via_server
    /\ calls < MaxCalls
    /\ calls' = calls + 1
    /\ first_result' = IF calls = 1 THEN result ELSE first_result
    /\ result' = NoResult
    /\ raised' = NoException
    /\ pc' = "call"
    /\ UNCHANGED <<inputs, scheduler, tool_result, total_pages, page_num,
                   accumulator, split_locals, filesystem, open_docs>>

\* ------------------------------------------------------------------------
\* Initial states: one call of one operation, with its arguments
\* ------------------------------------------------------------------------
InitExtractText ==
    /\ op = "extract_text_from_pdf"
    /\ file_status \in {"ok", "missing", "unreadable", "password"}
    /\ doc_pages \in (IF file_status = "ok" THEN Docs
                      ELSE IF file_status = "password" THEN {BlankDoc(1)}
                      ELSE {<<>>})
    /\ max_tokens_per_chunk \in 1..MaxBudget
    /\ include_page_numbers \in BOOLEAN
    /\ clean_text \in BOOLEAN
    /\ encoder_raises \in BOOLEAN
    /\ via_server = FALSE
    /\ output_dir = "none"
    /\ file_size = "small"
    /\ has_bookmarks = FALSE
    /\ save_raises = FALSE
    /\ pages_per_chunk = 20
    /\ start_page = 1
    /\ end_page = 1

\* the budgets asked of prometheus_extract_text: around both ends of the
\* accepted range, the default, and the 50000 of the test
ServerBudgets == {50, 99, 100, 101, 8000, ConfigMaxTokenLimit,
                  ConfigMaxTokenLimit + 1, 50000}

InitPrometheusExtractText ==
    /\ op = "extract_text_from_pdf"
    /\ via_server = TRUE
    /\ file_status \in {"ok", "missing", "unreadable", "password"}
    /\ doc_pages \in (IF file_status = "ok" THEN BlankDocs
                      ELSE IF file_status = "password" THEN {BlankDoc(1)}
                      ELSE {<<>>})
    /\ max_tokens_per_chunk \in ServerBudgets
    /\ include_page_numbers \in BOOLEAN
    /\ clean_text \in BOOLEAN
    /\ encoder_raises = FALSE
    /\ output_dir = "none"
    /\ file_size = "small"
    /\ has_bookmarks = FALSE
    /\ save_raises = FALSE
    /\ pages_per_chunk = 20
    /\ start_page = 1
    /\ end_page = 1

DefaultExtractArgs ==
    /\ max_tokens_per_chunk = 8000
    /\ include_page_numbers = TRUE
    /\ clean_text = TRUE
    /\ encoder_raises = FALSE

InitGetPdfInfo ==
    /\ op = "get_pdf_info"
    /\ file_status \in {"ok", "missing", "too_large", "unreadable",
                        "password"}
    /\ doc_pages \in (IF file_status = "ok" THEN Docs
                      ELSE IF file_status = "password" THEN {BlankDoc(1)}
                      ELSE {<<>>})
    /\ file_size \in (IF file_status = "ok" THEN {"small", "large"}
                      ELSE {"small"})
    /\ has_bookmarks \in (IF file_status = "ok" THEN BOOLEAN ELSE {FALSE})
    /\ via_server \in BOOLEAN
    /\ output_dir = "none"
    /\ DefaultExtractArgs
    /\ save_raises = FALSE
    /\ pages_per_chunk = 20
    /\ start_page = 1
    /\ end_page = 1

InitSplitPdf ==
    /\ op = "split_pdf"
    /\ file_status \in {"ok", "missing", "unreadable", "password"}
    /\ doc_pages \in (IF file_status = "ok" THEN BlankDocs
                      ELSE IF file_status = "password" THEN {BlankDoc(1)}
                      ELSE {<<>>})
    /\ pages_per_chunk \in (-1..MaxPagesPerChunk)
            \cup {ConfigMaxPagesPerChunk, ConfigMaxPagesPerChunk + 1, 500}
    /\ output_dir \in {"none", "valid", "bad_parent"}
    /\ via_server \in BOOLEAN
    /\ save_raises \in BOOLEAN
    /\ DefaultExtractArgs
    /\ file_size = "small"
    /\ has_bookmarks = FALSE
    /\ start_page = 1
    /\ end_page = 1

InitExtractPdfRange ==
    /\ op = "extract_pdf_range"
    /\ file_status \in {"ok", "missing", "unreadable", "password"}
    /\ doc_pages \in (IF file_status = "ok" THEN BlankDocs
                      ELSE IF file_status = "password" THEN {BlankDoc(1)}
                      ELSE {<<>>})
    /\ start_page \in 0..(MaxPages + 1)
    /\ end_page \in 0..(MaxPages + 1)
    /\ via_server \in BOOLEAN
    /\ output_dir = "none"
    /\ save_raises \in BOOLEAN
    /\ DefaultExtractArgs
    /\ file_size = "small"
    /\ has_bookmarks = FALSE
    /\ pages_per_chunk = 20

Init ==
    /\ \/ InitExtractText
       \/ InitPrometheusExtractText
       \/ InitGetPdfInfo
       \/ InitSplitPdf
       \/ InitExtractPdfRange
    /\ pc = (IF via_server THEN "tool" ELSE "call")
    /\ tool_result = NoResult
    /\ total_pages = 0
    /\ page_num = 0
    /\ chunks = <<>>
    /\ current_chunk = <<>>
    /\ current_tokens = 0
    /\ chunk_id = 0
    /\ pages_in_chunk = <<>>
    /\ split_start = 0
    /\ chunk_count = 0
    /\ chunks_created = <<>>
    /\ out_dir_exists = FALSE
    /\ files = {}
    /\ open_docs = 0
    /\ result = NoResult
    /\ raised = NoException
    /\ calls = 1
    /\ first_result = NoResult
    /\ tasks = <<>>
    /\ running = "main"

Next ==
    \/ ExtractOpen
    \/ ExtractFail
    \/ ExtractPage
    \/ ExtractPageFail
    \/ ExtractFinish
    \/ GetPdfInfo
    \/ SplitStart
    \/ SplitChunk
    \/ SplitFinish
    \/ ExtractPdfRange
    \/ PrometheusCall
    \/ PrometheusSplitValidate
    \/ PrometheusExtractTextValidate
    \/ PrometheusInfoReturn
    \/ PrometheusReturn
    \/ CallAgain

Spec == Init /\ [][Next]_vars

\* ------------------------------------------------------------------------
\* Concurrent calls of extract_text_from_pdf
\* ------------------------------------------------------------------------
\* Every name assigned in extract_text_from_pdf is a parameter or a local of
\* the call; the module-level names it reads (encoder, config) are never
\* assigned.  A call is a frame of these names; the frame of the running
\* task is in the variables of the sequential model, the frames of the
\* suspended tasks are in `tasks`.
Tasks == {"t1", "t2"}

ConcDocs == {<<<<"a">>, <<"a", " ">>>>,
             <<<<>>, <<"a", " ", " ", "a">>, <<" ">>>>}

ConcBudgets == {1, 6}

\* the frame of a call that has not started
NewFrame(doc, budget, numbers, clean) ==
    [doc_pages |-> doc,
     max_tokens_per_chunk |-> budget,
     include_page_numbers |-> numbers,
     clean_text |-> clean,
     pc |-> "call",
     total_pages |-> 0,
     page_num |-> 0,
     chunks |-> <<>>,
     current_chunk |-> <<>>,
     current_tokens |-> 0,
     chunk_id |-> 0,
     pages_in_chunk |-> <<>>,
     result |-> NoResult]

\* the frame of the running task
RunningFrame ==
    [doc_pages |-> doc_pages,
     max_tokens_per_chunk |-> max_tokens_per_chunk,
     include_page_numbers |-> include_page_numbers,
     clean_text |-> clean_text,
     pc |-> pc,
     total_pages |-> total_pages,
     page_num |-> page_num,
     chunks |-> chunks,
     current_chunk |-> current_chunk,
     current_tokens |-> current_tokens,
     chunk_id |-> chunk_id,
     pages_in_chunk |-> pages_in_chunk,
     result |-> result]

\* chunk_id as one module-level counter that every call uses
FrameChunkIdShared(t) == chunk_id

\* chunk_id is a local of the call: task t resumes with its own
FrameChunkId(t) == tasks[t].chunk_id

\* the scheduler suspends the running task and resumes task t
Switch(t) ==
    /\ op = "extract_text_from_pdf"
    /\ t \in DOMAIN tasks
    /\ tasks' = [u \in (DOMAIN tasks \ {t}) \cup {running} |->
                     IF u = running THEN RunningFrame ELSE tasks[u]]
    /\ running' = t
    /\ doc_pages' = tasks[t].doc_pages
    /\ max_tokens_per_chunk' = tasks[t].max_tokens_per_chunk
    /\ include_page_numbers' = tasks[t].include_page_numbers
    /\ clean_text' = tasks[t].clean_text
    /\ pc' = tasks[t].pc
    /\ total_pages' = tasks[t].total_pages
    /\ page_num' = tasks[t].page_num
    /\ chunks' = tasks[t].chunks
    /\ current_chunk' = tasks[t].current_chunk
    /\ current_tokens' = tasks[t].current_tokens
    /\ chunk_id' = FrameChunkId(t)
    /\ pages_in_chunk' = tasks[t].pages_in_chunk
    /\ result' = tasks[t].result
    /\ UNCHANGED <<op, via_server, output_dir, file_status, file_size,
                   has_bookmarks, save_raises, pages_per_chunk, start_page,
                   end_page, encoder_raises, tool_result, split_locals,
                   filesystem, open_docs, raised, calls, first_result>>

\* several calls of extract_text_from_pdf on readable documents, none started
InitConc ==
    /\ op = "extract_text_from_pdf"
    /\ via_server = FALSE
    /\ output_dir = "none"
    /\ file_status = "ok"
    /\ file_size = "small"
    /\ has_bookmarks = FALSE
    /\ save_raises = FALSE
    /\ pages_per_chunk = 20
    /\ start_page = 1
    /\ end_page = 1
    /\ encoder_raises \in BOOLEAN
    /\ running = "t1"
    /\ doc_pages \in ConcDocs
    /\ max_tokens_per_chunk \in ConcBudgets
    /\ include_page_numbers \in BOOLEAN
    /\ clean_text \in BOOLEAN
    /\ tasks \in [Tasks \ {"t1"} ->
                    {NewFrame(d, b, n, c) :
                        d \in ConcDocs, b \in ConcBudgets,
                        n \in BOOLEAN, c \in BOOLEAN}]
    /\ pc = "call"
    /\ tool_result = NoResult
    /\ total_pages = 0
    /\ page_num = 0
    /\ chunks = <<>>
    /\ current_chunk = <<>>
    /\ current_tokens = 0
    /\ chunk_id = 0
    /\ pages_in_chunk = <<>>
    /\ split_start = 0
    /\ chunk_count = 0
    /\ chunks_created = <<>>
    /\ out_dir_exists = FALSE
    /\ files = {}
    /\ open_docs = 0
    /\ result = NoResult
    /\ raised = NoException
    /\ calls = 1
    /\ first_result = NoResult

NextConc ==
    \/ ExtractOpen
    \/ ExtractPage
    \/ ExtractFinish
    \/ \E t \in Tasks : Switch(t)

SpecConc == InitConc /\ [][NextConc]_vars

\* ------------------------------------------------------------------------
\* Properties of the text chunker
\* ------------------------------------------------------------------------
\* a call of extract_text_from_pdf has returned its success dict
ExtractSucceeded ==
    /\ op = "extract_text_from_pdf"
    /\ pc = "done"
    /\ result.status = "success"

RECURSIVE ConcatPages(_)
\* the `pages` lists of the chunks, concatenated in chunk order
ConcatPages(cs) ==
    IF cs = <<>> THEN <<>> ELSE cs[1].pages \o ConcatPages(Tail(cs))

RECURSIVE SumPageTokens(_)
\* the summed token counts of the content strings of the listed pages
SumPageTokens(pages) ==
    IF pages = <<>> THEN 0
    ELSE PageTokens(Head(pages)) + SumPageTokens(Tail(pages))

RECURSIVE ConcatContent(_)
\* the content strings of the listed pages, concatenated
ConcatContent(pages) ==
    IF pages = <<>> THEN <<>>
    ELSE PageContent(Head(pages)) \o ConcatContent(Tail(pages))

\* the least index >= from at which pat occurs in text, or 0
Find(text, pat, from) ==
    LET hits == {i \in from..(Len(text) - Len(pat) + 1) :
                    SubSeq(text, i, i + Len(pat) - 1) = pat}
    IN  IF hits = {} THEN 0
        ELSE CHOOSE i \in hits : \A j \in hits : i <= j

\* the page marker without the newlines around it: "--- Page n ---"
MarkerLine(n) ==
    <<"-", "-", "-", " ", "P", "a", "g", "e", " ">> \o ToStr(n)
        \o <<" ", "-", "-", "-">>

\* the page marker as the claim spells it: "\n--- Page n ---\n"
LiteralMarker(n) == <<"\n">> \o MarkerLine(n) \o <<"\n">>

RECURSIVE MarkersFrom(_, _, _, _)
\* the markers of the listed pages occur in text from index `from` on, one
\* after the other; literal: with their newlines, otherwise as MarkerLine
MarkersFrom(text, pages, from, literal) ==
    IF pages = <<>> THEN TRUE
    ELSE LET m == IF literal THEN LiteralMarker(Head(pages))
                  ELSE MarkerLine(Head(pages))
             at == Find(text, m, from)
         IN  /\ at # 0
             /\ MarkersFrom(text, Tail(pages), at + Len(m), literal)

RECURSIVE ParseInt(_)
\* int(s) of a string of decimal digits
ParseInt(s) ==
    IF s = <<>> THEN 0
    ELSE 10 * ParseInt(SubSeq(s, 1, Len(s) - 1))
         + (CHOOSE d \in 0..9 : DigitChars[d + 1] = s[Len(s)])

\* the pair (first, last) a page_range string "first-last" names
ParseRange(s) ==
    LET dash == Find(s, <<"-">>, 1)
    IN  <<ParseInt(SubSeq(s, 1, dash - 1)),
          ParseInt(SubSeq(s, dash + 1, Len(s)))>>

\* C1: the `pages` lists of the returned chunks, concatenated in chunk order,
\* are exactly 1, 2, ..., total_pages.
C1_Partition ==
    ExtractSucceeded =>
        ConcatPages(result.chunks) = PageRun(1, result.total_pages)

\* C2: every returned chunk that holds two or more pages has a token_count
\* within max_tokens_per_chunk.
C2_BudgetRespect ==
    ExtractSucceeded =>
        \A i \in 1..Len(result.chunks) :
            Len(result.chunks[i].pages) >= 2 =>
                result.chunks[i].token_count <= max_tokens_per_chunk

\* C3: a page whose own content token count exceeds the budget is the only
\* page of its chunk, and the chunk's token_count is that page's count.
C3_OversizedAlone ==
    ExtractSucceeded =>
        \A n \in 1..result.total_pages :
            PageTokens(n) > max_tokens_per_chunk =>
                \E i \in 1..Len(result.chunks) :
                    /\ result.chunks[i].pages = <<n>>
                    /\ result.chunks[i].token_count = PageTokens(n)

\* C4 as stated: with include_page_numbers, every chunk text contains the
\* literal marker "\n--- Page n ---\n" of each of its pages, in page order.
C4_LiteralMarkers ==
    (ExtractSucceeded /\ include_page_numbers) =>
        \A i \in 1..Len(result.chunks) :
            MarkersFrom(result.chunks[i].text, result.chunks[i].pages, 1,
                        TRUE)

\* C4 as amended: with include_page_numbers, every chunk text contains the
\* marker line "--- Page n ---" of each of its pages, in page order (the
\* newlines around a marker are subject to the trim of the chunk text).
C4_MarkerLines ==
    (ExtractSucceeded /\ include_page_numbers) =>
        \A i \in 1..Len(result.chunks) :
            MarkersFrom(result.chunks[i].text, result.chunks[i].pages, 1,
                        FALSE)

C4_Witness ==
    /\ ExtractSucceeded
    /\ include_page_numbers
    /\ \E i \in 1..Len(result.chunks) :
          /\ Len(result.chunks[i].pages) >= 2
          /\ i >= 2

\* C5: a document of zero pages yields a success result with an empty chunk
\* list and zero aggregates, and no exception.
C5_EmptyInput ==
    (/\ op = "extract_text_from_pdf"
     /\ pc = "done"
     /\ file_status = "ok"
     /\ Len(doc_pages) = 0) =>
        /\ raised = NoException
        /\ result.status = "success"
        /\ result.chunks = <<>>
        /\ result.chunks_created = 0
        /\ result.total_tokens = 0
        /\ result.avg_tokens_per_chunk = 0

C5_Witness ==
    /\ ExtractSucceeded
    /\ Len(doc_pages) = 0
    /\ ~include_page_numbers
    /\ max_tokens_per_chunk = 1

\* C6: each chunk's token_count is the sum of the token counts measured on
\* the content string of each of its pages.
C6_AdditiveTokens ==
    ExtractSucceeded =>
        \A i \in 1..Len(result.chunks) :
            result.chunks[i].token_count =
                SumPageTokens(result.chunks[i].pages)

\* a chunk whose summed count differs from the count of its text, both
\* trimmed and as concatenated
C6_Witness ==
    /\ ExtractSucceeded
    /\ \E i \in 1..Len(result.chunks) :
          LET c == result.chunks[i]
          IN  /\ Len(c.pages) >= 2
              /\ c.token_count # count_tokens(c.text)
              /\ c.token_count # count_tokens(ConcatContent(c.pages))

\* C7: the i-th returned chunk has chunk_id = i, and chunks_created is the
\* number of chunks.
C7_ChunkIds ==
    ExtractSucceeded =>
        /\ result.chunks_created = Len(result.chunks)
        /\ \A i \in 1..Len(result.chunks) : result.chunks[i].chunk_id = i

\* several chunks, with a page of empty content among the pages
C7_Witness ==
    /\ ExtractSucceeded
    /\ Len(result.chunks) >= 2
    /\ \E n \in 1..result.total_pages : PageContent(n) = <<>>

\* C8: every chunk's `pages` is a non-empty run of consecutive ascending
\* page numbers and its page_range names the first and the last of them.
C8_PagesAndRange ==
    ExtractSucceeded =>
        \A i \in 1..Len(result.chunks) :
            LET c == result.chunks[i]
            IN  /\ c.pages # <<>>
                /\ \A j \in 1..(Len(c.pages) - 1) :
                       c.pages[j + 1] = c.pages[j] + 1
                /\ c.page_range # <<>>
                /\ ParseRange(c.page_range)
                       = <<c.pages[1], c.pages[Len(c.pages)]>>

C8_Witness ==
    /\ ExtractSucceeded
    /\ \E i \in 1..Len(result.chunks) :
          /\ Len(result.chunks[i].pages) >= 2
          /\ result.chunks[i].pages[1] >= 2

\* C9: a call repeated with the same document and arguments returns the
\* same result as the first call.
C9_Determinism ==
    (/\ op = "extract_text_from_pdf"
     /\ pc = "done"
     /\ calls >= 2) =>
        result = first_result

C9_Witness ==
    /\ ExtractSucceeded
    /\ calls >= 2
    /\ Len(result.chunks) >= 2
    /\ result = first_result

\* ------------------------------------------------------------------------
\* Properties of the error reporting
\* ------------------------------------------------------------------------
\* the file is missing, unreadable or password-protected, or the page range
\* asked of extract_pdf_range is invalid
BadInput ==
    \/ file_status \in {"missing", "unreadable", "password"}
    \/ /\ op = "extract_pdf_range"
       /\ file_status = "ok"
       /\ InvalidRange(start_page, end_page, Len(doc_pages))

\* C10: every operation reports a missing, unreadable or password-protected
\* file or an invalid page range as a returned result of status "error"
\* without a chunk list, and raises nothing.
C10_ErrorsReturned ==
    (pc = "done" /\ BadInput) =>
        /\ raised = NoException
        /\ result.status = "error"
        /\ "chunks" \notin DOMAIN result

\* ------------------------------------------------------------------------
\* Properties of the server tools and of token counting
\* ------------------------------------------------------------------------
\* the error message has this part
Mentions(error, part) == \E i \in 1..Len(error) : error[i] = part

\* C11: prometheus_info on a missing file returns a result of status "error"
\* whose message contains "Failed to read PDF".
C11_InfoMissingFile ==
    (/\ via_server
     /\ op = "get_pdf_info"
     /\ file_status = "missing"
     /\ pc = "returned") =>
        /\ tool_result.status = "error"
        /\ Mentions(tool_result.error, "Failed to read PDF: ")

\* the count the claim gives a text: the tokenizer's, or floor(len / 4) when
\* the tokenizer raises
ExpectedCount(text) ==
    IF encoder_raises THEN Len(text) \div 4 ELSE Encode(text)

RECURSIVE SumExpected(_)
SumExpected(pages) ==
    IF pages = <<>> THEN 0
    ELSE ExpectedCount(PageContent(Head(pages))) + SumExpected(Tail(pages))

\* C12: count_tokens gives the content of every page it is called on a
\* non-negative count, the tokenizer's or floor(len / 4) when the tokenizer
\* raises, 0 for the empty string; the call succeeds and every chunk's count
\* is the sum of these.
C12_CountTokens ==
    (op = "extract_text_from_pdf" /\ file_status = "ok") =>
        /\ (pc = "loop" /\ page_num >= 1) =>
              LET page_content == PageContent(page_num)
                  page_tokens == count_tokens(page_content)
              IN  /\ page_tokens = ExpectedCount(page_content)
                  /\ page_tokens >= 0
                  /\ page_content = <<>> => page_tokens = 0
                  /\ current_tokens >= 0
        /\ pc = "done" =>
              /\ result.status = "success"
              /\ \A i \in 1..Len(result.chunks) :
                    /\ result.chunks[i].token_count
                           = SumExpected(result.chunks[i].pages)
                    /\ result.chunks[i].token_count >= 0

\* the tokenizer raises and the document is chunked all the same
C12_Witness ==
    /\ ExtractSucceeded
    /\ encoder_raises
    /\ Len(result.chunks) >= 2
    /\ result.total_tokens > 0

\* C14 as stated: prometheus_extract_text goes on to the extraction exactly
\* when 100 <= max_tokens_per_chunk <= config.max_token_limit, and otherwise
\* returns an "Invalid options" error without opening the document.
C14_BudgetRange ==
    (/\ via_server
     /\ op = "extract_text_from_pdf"
     /\ pc = "returned") =>
        IF max_tokens_per_chunk \in 100..ConfigMaxTokenLimit
        THEN result # NoResult
        ELSE /\ result = NoResult
             /\ tool_result.status = "error"
             /\ Mentions(tool_result.error, "Invalid options: ")

\* C15: prometheus_split with pages_per_chunk outside
\* 1..config.max_pages_per_chunk never calls split_pdf, creates no directory
\* and no file, and returns an "Invalid options" error.
C15_SplitValidated ==
    (/\ via_server
     /\ op = "split_pdf"
     /\ pages_per_chunk \notin 1..ConfigMaxPagesPerChunk) =>
        /\ pc \in {"tool", "returned"}
        /\ result = NoResult
        /\ ~out_dir_exists
        /\ files = {}
        /\ pc = "returned" =>
              /\ tool_result.status = "error"
              /\ Mentions(tool_result.error, "Invalid options: ")

C15_Witness ==
    /\ via_server
    /\ op = "split_pdf"
    /\ file_status = "ok"
    /\ Len(doc_pages) > 0
    /\ pages_per_chunk = 500
    /\ pc = "returned"

\* ------------------------------------------------------------------------
\* Properties of the chunking loop
\* ------------------------------------------------------------------------
RECURSIVE GreedyPack(_, _, _, _)
\* sequential greedy packing of pages n.. : a page joins the current group
\* when the group holds no page or the page fits the budget, and otherwise
\* starts a new group; the last group is kept when it holds a page
GreedyPack(n, group, tokens, packed) ==
    IF n > Len(doc_pages)
    THEN IF group # <<>> THEN Append(packed, group) ELSE packed
    ELSE IF group = <<>> \/ tokens + PageTokens(n) <= max_tokens_per_chunk
         THEN GreedyPack(n + 1, Append(group, n), tokens + PageTokens(n),
                         packed)
         ELSE GreedyPack(n + 1, <<n>>, PageTokens(n), Append(packed, group))

\* C16 as stated: the chunk sequence is the sequential greedy packing of the
\* pages, and for two consecutive chunks the earlier one's token_count plus
\* the tokens of the later one's first page exceeds the budget.
C16_GreedySealing ==
    ExtractSucceeded =>
        /\ [i \in 1..Len(result.chunks) |-> result.chunks[i].pages]
               = GreedyPack(1, <<>>, 0, <<>>)
        /\ \A i \in 1..(Len(result.chunks) - 1) :
              result.chunks[i].token_count
                  + PageTokens(result.chunks[i + 1].pages[1])
                  > max_tokens_per_chunk

\* C17 as stated: when the loop ends with at least one page in the
\* accumulator, the accumulator is emitted as the last chunk.
C17_FinalChunkSealed ==
    (ExtractSucceeded /\ pages_in_chunk # <<>>) =>
        /\ result.chunks # <<>>
        /\ result.chunks[Len(result.chunks)].pages = pages_in_chunk

\* C18: a chunk's text is the concatenation of the content strings of its
\* pages, in page order, trimmed once as a whole; the buffer of the loop is
\* the untrimmed concatenation of the contents of the pages it holds.
C18_ChunkText ==
    /\ ExtractSucceeded =>
          \A i \in 1..Len(result.chunks) :
              result.chunks[i].text
                  = strip(ConcatContent(result.chunks[i].pages))
    /\ (op = "extract_text_from_pdf" /\ pc = "loop") =>
          /\ current_chunk = ConcatContent(pages_in_chunk)
          /\ \A i \in 1..Len(chunks) :
                chunks[i].text = strip(ConcatContent(chunks[i].pages))

\* a chunk of two pages that keeps the whitespace between them and has lost
\* the whitespace at its end
C18_Witness ==
    /\ ExtractSucceeded
    /\ \E i \in 1..Len(result.chunks) :
          LET c == result.chunks[i]
          IN  /\ Len(c.pages) = 2
              /\ c.text # ConcatContent(c.pages)
              /\ c.text # strip(PageContent(c.pages[1]))
                              \o strip(PageContent(c.pages[2]))

RECURSIVE SumCounts(_, _)
\* the token_count values of chunks i.. of cs, summed
SumCounts(cs, i) ==
    IF i > Len(cs) THEN 0 ELSE cs[i].token_count + SumCounts(cs, i + 1)

\* C19: total_tokens is the sum of the chunks' token_count values and the
\* sum of the content token counts of all pages of the document;
\* chunks_created is the number of chunks and max_tokens_per_chunk the
\* largest token_count, 0 without a chunk.
C19_Aggregates ==
    ExtractSucceeded =>
        /\ result.total_pages = Len(doc_pages)
        /\ result.total_tokens = SumCounts(result.chunks, 1)
        /\ result.total_tokens
               = SumPageTokens([n \in 1..Len(doc_pages) |-> n])
        /\ result.chunks_created = Len(result.chunks)
        /\ \A i \in 1..Len(result.chunks) :
              result.chunks[i].token_count <= result.max_tokens_per_chunk
        /\ IF result.chunks = <<>>
           THEN result.max_tokens_per_chunk = 0
           ELSE \E i \in 1..Len(result.chunks) :
                    result.chunks[i].token_count
                        = result.max_tokens_per_chunk

\* several chunks of different sizes
C19_Witness ==
    /\ ExtractSucceeded
    /\ Len(result.chunks) >= 2
    /\ \E i, j \in 1..Len(result.chunks) :
          result.chunks[i].token_count < result.chunks[j].token_count
    /\ result.total_tokens > result.max_tokens_per_chunk

\* C20 as stated: throughout the loop the text buffer is empty exactly when
\* the page list is empty, and then the running token count is 0.
C20_GuardSound ==
    (op = "extract_text_from_pdf" /\ pc = "loop") =>
        /\ (current_chunk = <<>>) <=> (pages_in_chunk = <<>>)
        /\ pages_in_chunk = <<>> => current_tokens = 0

\* ------------------------------------------------------------------------
\* Properties of concurrent calls
\* ------------------------------------------------------------------------
RECURSIVE ExtractLoop(_, _, _, _, _, _)
\* the chunk list of the call of the running frame when it runs from page n
\* to the end with nothing in between
ExtractLoop(n, buf, tokens, id, pages, cs) ==
    IF n > Len(doc_pages)
    THEN IF HasLastChunk(buf)
         THEN Append(cs, MakeChunk(id, buf, tokens, pages))
         ELSE cs
    ELSE LET page_content == PageContent(n)
             page_tokens == count_tokens(page_content)
         IN  IF ShouldSeal(tokens, page_tokens, buf)
             THEN ExtractLoop(n + 1, page_content, page_tokens,
                              NextChunkId(id), <<n>>,
                              Append(cs, MakeChunk(id, buf, tokens, pages)))
             ELSE ExtractLoop(n + 1, buf \o page_content,
                              tokens + page_tokens, id, Append(pages, n),
                              cs)

\* what the call of the running frame returns when it runs alone
RunAlone == SuccessResult(ExtractLoop(1, <<>>, 0, StartChunkId, <<>>, <<>>))

\* C13: among concurrent calls of extract_text_from_pdf, in every
\* interleaving, a call returns what it returns when run alone, and no step
\* of the running call changes the frame of a suspended call.
C13_Independent ==
    /\ [](ExtractSucceeded => result = RunAlone)
    /\ [][\A t \in DOMAIN tasks \cap DOMAIN tasks' : tasks'[t] = tasks[t]]_vars

\* a call has returned several chunks while another call, on other
\* arguments, is suspended in its loop with a chunk sealed
C13_Witness ==
    /\ ExtractSucceeded
    /\ Len(result.chunks) >= 2
    /\ \E t \in DOMAIN tasks :
          /\ tasks[t].pc = "loop"
          /\ tasks[t].chunks # <<>>
          /\ tasks[t].page_num < tasks[t].total_pages
          /\ tasks[t].doc_pages # doc_pages

\* ------------------------------------------------------------------------
\* Properties of the page-copying operations
\* ------------------------------------------------------------------------
\* split_pdf has returned from a call on a readable document of at least one
\* page with pages_per_chunk >= 1, its output directory and files writable
SplitReturned ==
    /\ op = "split_pdf"
    /\ pc = "done"
    /\ file_status = "ok"
    /\ ~save_raises
    /\ output_dir # "bad_parent"
    /\ Len(doc_pages) >= 1
    /\ pages_per_chunk >= 1

\* the last page of chunk i of a document of n pages split by k
LastPageOf(i, k, n) == IF i * k < n THEN i * k ELSE n

RECURSIVE SumPageCounts(_, _)
\* the page_count values of chunks i.. of cs, summed
SumPageCounts(cs, i) ==
    IF i > Len(cs) THEN 0 ELSE cs[i].page_count + SumPageCounts(cs, i + 1)

\* C21: for N >= 1 pages and k >= 1, split_pdf succeeds with ceil(N / k)
\* chunks numbered 1..ceil(N / k); chunk i holds pages (i-1)k+1..min(ik, N) in
\* order, every chunk but the last has k pages, the page counts sum to N and
\* every source page is in exactly one chunk file, once.
C21_SplitCoverage ==
    SplitReturned =>
        LET n == Len(doc_pages)
            k == pages_per_chunk
            m == (n + k - 1) \div k
        IN  /\ result.status = "success"
            /\ result.chunks_created = m
            /\ Len(result.chunks) = m
            /\ \A i \in 1..m :
                  LET c == result.chunks[i]
                      first == (i - 1) * k + 1
                      last == LastPageOf(i, k, n)
                  IN  /\ c.chunk_id = i
                      /\ c.page_count = last - first + 1
                      /\ i < m => c.page_count = k
                      /\ \E f \in files :
                            /\ f.name = c.file_path
                            /\ f.pages = [j \in 1..(last - first + 1)
                                              |-> first + j - 1]
            /\ SumPageCounts(result.chunks, 1) = n
            /\ Cardinality(files) = m
            /\ \A p \in 1..n :
                  Cardinality({<<f, j>> \in
                                  {<<g, h>> \in files \X (1..n) :
                                      h <= Len(g.pages)} :
                                  f.pages[j] = p}) = 1

\* three pages split by two: a full chunk and a last chunk of one page
C21_Witness ==
    /\ SplitReturned
    /\ Len(doc_pages) = 3
    /\ pages_per_chunk = 2
    /\ result.status = "success"
    /\ Len(result.chunks) = 2

\* extract_pdf_range has returned from a call on a readable document whose
\* output file can be written
RangeReturned ==
    /\ op = "extract_pdf_range"
    /\ pc = "done"
    /\ file_status = "ok"
    /\ ~save_raises

\* C22: on a document of N pages extract_pdf_range returns an error and
\* writes no file exactly when start_page < 1, end_page > N or
\* start_page > end_page; otherwise it writes one file holding pages
\* start_page..end_page in ascending order and reports
\* page_count = end_page - start_page + 1.
C22_RangeValidation ==
    RangeReturned =>
        IF start_page < 1 \/ end_page > Len(doc_pages)
               \/ start_page > end_page
        THEN /\ result.status = "error"
             /\ files = {}
        ELSE /\ result.status = "success"
             /\ result.page_count = end_page - start_page + 1
             /\ \E f \in files :
                   /\ files = {f}
                   /\ f.name = result.output_file
                   /\ Len(f.pages) = end_page - start_page + 1
                   /\ \A j \in 1..Len(f.pages) :
                         f.pages[j] = start_page + j - 1

\* pages 2..3 of three are copied
C22_Witness ==
    /\ RangeReturned
    /\ Len(doc_pages) = 3
    /\ start_page = 2
    /\ end_page = 3
    /\ result.status = "success"
    /\ files # {}

\* C23 as stated: every operation has closed every document it opened when
\* it returns or raises, on the success outcome and on every error outcome.
C23_HandlesReleased ==
    pc \in {"done", "returned"} => open_docs = 0

====
